---- MODULE Spec2Model ----
(***************************************************************************)
(* Model of the Todo view (src/src/App.tsx): the component state, its      *)
(* event handlers, the requests they leave in flight, and the Item Store   *)
(* that answers them.  A handler that awaits a fetch is two steps: the     *)
(* part before the await (the request is issued) and the part after it     *)
(* (the response is applied); in between the store serves the request.     *)
(* Strings are sequences of characters, so that trim() is computed.        *)
(***************************************************************************)
EXTENDS Integers, Sequences, FiniteSets, TLC

VARIABLES
    todos,      \* useState<Todo[]>: the local list
    newTodo,    \* useState<string>: the new-item draft
    editingId,  \* useState<number | null>: id under edit
    editTitle,  \* useState<string>: the edit draft
    net,        \* requests in flight (sent, or answered and not yet applied)
    store,      \* the Item Store's collection
    nextId,     \* the id the Item Store assigns next
    issued,     \* number of requests issued by user events
    logged,     \* number of console.error calls
    uncaught,   \* number of handler promises that ended rejected
    tail,       \* history: the Add calls whose items form the list's tail
    skipped,    \* history: the handler that returned early in the last step
    prior       \* history: the edit step taken last, with the values it found

vars == <<todos, newTodo, editingId, editTitle, net, store, nextId,
          issued, logged, uncaught, tail, skipped, prior>>

-----------------------------------------------------------------------------
(* Bounds *)

MaxReqs == 2        \* requests issued by user events (the mount Load is extra)

MaxInFlight == 2    \* requests of user events in flight at once

MaxPre == 2         \* items the Item Store may hold before the view mounts

-----------------------------------------------------------------------------
(* Values *)

\* JavaScript null (the initial editingId)
Null == -2

\* JavaScript undefined (a property read of an object that lacks it)
Undefined == -1

\* the edit draft after startEdit of a row that has no title property
UndefinedTitle == <<"undefined">>

Space == " "

\* what the user can type into either input
Typed == { <<>>, <<Space>>, <<"b", Space>> }

\* ids the Item Store may start numbering from
FirstIds == {0, 1}

\* the body of a failure response: a JSON object that is not an Item
ErrorObject == [error |-> "failed"]

\* a response with no usable body
NoBody == [tag |-> "none"]

\* the last step was not StartEdit, CancelEdit or the end of a Rename
NoStep == [ev |-> "none"]

\* a JSON array body
JsonArray(items) == [tag |-> "array", items |-> items]

\* the answers of the Item Store: success, or a failure status with a JSON body
Answers == {"ok", "error"}

\* the failures on the way: fetch rejects, or the body is not JSON
Failures == {"reject", "garbled"}

Item(id, title, completed) == [id |-> id, title |-> title, completed |-> completed]

\* t.id
IdOf(t) == IF "id" \in DOMAIN t THEN t.id ELSE Undefined

\* t.title
TitleOf(t) == IF "title" \in DOMAIN t THEN t.title ELSE UndefinedTitle

\* JavaScript truthiness of editingId
TruthyId(id) == id \notin {Null, Undefined, 0}

RECURSIVE TrimStart(_)
TrimStart(s) == IF s # <<>> /\ Head(s) = Space THEN TrimStart(Tail(s)) ELSE s

RECURSIVE TrimEnd(_)
TrimEnd(s) == IF s # <<>> /\ s[Len(s)] = Space THEN TrimEnd(SubSeq(s, 1, Len(s) - 1)) ELSE s

\* String.prototype.trim
Trim(s) == TrimEnd(TrimStart(s))

\* JavaScript truthiness of a string
TruthyStr(s) == s # <<>>

\* a string that is not empty and holds only whitespace
Blank(s) == s # <<>> /\ Trim(s) = <<>>

-----------------------------------------------------------------------------
(* The state patches the handlers pass to setTodos *)

\* Array.isArray(data)
IsArray(data) == "tag" \in DOMAIN data /\ data.tag = "array"

\* a Load that merges the response into the list instead of replacing the list
LoadPatchMerging(data) == IF IsArray(data) THEN todos \o data.items ELSE todos

\* setTodos(Array.isArray(data) ? data : [])
LoadPatch(data) == IF IsArray(data) THEN data.items ELSE <<>>

\* an Add that puts the new item first
AddPatchInFront(prev, data) == <<data>> \o prev

\* prev => [...prev, data]
AddPatch(prev, data) == Append(prev, data)

\* a replacement that does not compare ids
ReplacePatchEveryRow(prev, data) == [i \in DOMAIN prev |-> data]

\* a replacement that puts data in the first row when its id is in the list
ReplacePatchFirstRow(prev, data) ==
    IF \E i \in DOMAIN prev : IdOf(prev[i]) = IdOf(data)
      THEN <<data>> \o Tail(prev)
      ELSE prev

\* a replacement that takes the title of data and keeps the row's completed
ReplacePatchTitleOnly(prev, data) ==
    [i \in DOMAIN prev |->
        IF IdOf(prev[i]) = IdOf(data) /\ "completed" \in DOMAIN prev[i]
          THEN Item(IdOf(data), TitleOf(data), prev[i].completed)
          ELSE prev[i]]

\* prev => prev.map(t => (t.id === data.id ? data : t))
ReplacePatch(prev, data) ==
    [i \in DOMAIN prev |-> IF IdOf(prev[i]) = IdOf(data) THEN data ELSE prev[i]]

\* t.id !== id
KeepOnDelete(t, id) == IdOf(t) # id

\* a Delete that takes id for a position of the list
DeletePatchByPosition(prev, id) ==
    IF id + 1 \in DOMAIN prev
      THEN SubSeq(prev, 1, id) \o SubSeq(prev, id + 2, Len(prev))
      ELSE prev

\* prev => prev.filter(t => t.id !== id)
DeletePatch(prev, id) == SelectSeq(prev, LAMBDA t : KeepOnDelete(t, id))

-----------------------------------------------------------------------------
(* Requests *)

Request(seq, op, id, title) ==
    [seq |-> seq, op |-> op, id |-> id, title |-> title,
     st |-> "sent", res |-> "none", body |-> NoBody]

\* fetch(...) called from a user event
Issue(op, id, title) ==
    /\ issued < MaxReqs
    /\ Cardinality({m \in net : m.op # "list"}) < MaxInFlight
    /\ issued' = issued + 1
    /\ net' = net \cup {Request(issued + 1, op, id, title)}

\* the awaits of the handler completed: fetch resolved and, where the
\* handler reads it, res.json() resolved
Resolved(m) == \/ m.res \in {"ok", "error"}
               \/ m.op = "delete" /\ m.res = "garbled"

\* the responses that can reach the handler that awaits a request of kind op:
\* the answers of the store, and the failure of a request or of its answer
\* on the way
Answered(op) ==
    {m \in net : m.op = op /\ m.st = "replied"} \cup
    {[m EXCEPT !.st = "replied", !.res = f, !.body = NoBody] :
        m \in {n \in net : n.op = op}, f \in Failures}

\* the requests in flight other than the one response m ends
Others(m) == {n \in net : n.seq # m.seq}

\* the rows of the list that are rendered read-only
ReadOnlyRows == {i \in DOMAIN todos : editingId # IdOf(todos[i])}

\* some row is rendered as the edit form
EditFormShown == \E i \in DOMAIN todos : editingId = IdOf(todos[i])

-----------------------------------------------------------------------------
(* The Item Store (the backend of the five endpoints) *)

InStore(id) == \E i \in DOMAIN store : store[i].id = id

StoreItem(id) == store[CHOOSE i \in DOMAIN store : store[i].id = id]

\* the Item a successful request returns
Reply(m) ==
    CASE m.op = "list"   -> JsonArray(store)
      [] m.op = "create" -> Item(nextId, m.title, FALSE)
      [] m.op = "update" -> Item(m.id, m.title, StoreItem(m.id).completed)
      [] m.op = "toggle" -> Item(m.id, StoreItem(m.id).title, ~StoreItem(m.id).completed)
      [] OTHER           -> NoBody

\* the collection after a successful request
Stored(m) ==
    CASE m.op = "create" -> Append(store, Reply(m))
      [] m.op \in {"update", "toggle"} -> ReplacePatch(store, Reply(m))
      [] m.op = "delete" -> DeletePatch(store, m.id)
      [] OTHER           -> store

\* a request on an item succeeds only if the store holds the item
CanSucceed(m) == m.op \in {"list", "create"} \/ InStore(m.id)

\* the store serves request m, or the request fails, with outcome o
Serve(m, o) ==
    /\ m \in net /\ m.st = "sent"
    /\ o = "ok" => CanSucceed(m)
    /\ net' = (net \ {m}) \cup
              {[m EXCEPT !.st = "replied", !.res = o,
                         !.body = IF o = "ok" THEN Reply(m) ELSE ErrorObject]}
    /\ store' = IF o = "ok" THEN Stored(m) ELSE store
    /\ nextId' = IF o = "ok" /\ m.op = "create" THEN nextId + 1 ELSE nextId
    /\ skipped' = "none"
    /\ prior' = NoStep
    /\ UNCHANGED <<todos, newTodo, editingId, editTitle, issued, logged, uncaught, tail>>

-----------------------------------------------------------------------------
(* Load: fetchTodos, called once by the mount effect *)

\* fetchTodos without its try/catch
FetchTodosUncaught(m) ==
    /\ m \in Answered("list")
    /\ net' = Others(m)
    /\ IF Resolved(m)
         THEN /\ todos' = LoadPatch(m.body)
              /\ uncaught' = uncaught
         ELSE /\ todos' = todos
              /\ uncaught' = uncaught + 1
    /\ tail' = IF Resolved(m) THEN <<>> ELSE tail
    /\ skipped' = "none"
    /\ prior' = NoStep
    /\ UNCHANGED <<newTodo, editingId, editTitle, store, nextId, issued, logged>>

\* the part of fetchTodos after its awaits
FetchTodosDone(m) ==
    /\ m \in Answered("list")
    /\ net' = Others(m)
    /\ IF Resolved(m)
         THEN /\ todos' = LoadPatch(m.body)
              /\ logged' = logged
         ELSE /\ todos' = <<>>
              /\ logged' = logged + 1
    /\ tail' = <<>>
    /\ skipped' = "none"
    /\ prior' = NoStep
    /\ UNCHANGED <<newTodo, editingId, editTitle, store, nextId, issued, uncaught>>

-----------------------------------------------------------------------------
(* Add *)

\* onChange of the new-item input
TypeNewTodo(s) ==
    /\ newTodo' = s
    /\ skipped' = "none"
    /\ prior' = NoStep
    /\ UNCHANGED <<todos, editingId, editTitle, net, store, nextId,
                   issued, logged, uncaught, tail>>

\* an Add without its guard
AddRejectsNothing(s) == FALSE

\* if (!newTodo) return;
AddRejectsDraft(s) == ~TruthyStr(s)

\* addTodo up to its first await
AddTodo ==
    IF AddRejectsDraft(newTodo)
      THEN /\ skipped' = "addTodo"
           /\ prior' = NoStep
           /\ UNCHANGED <<todos, newTodo, editingId, editTitle, net, store,
                          nextId, issued, logged, uncaught, tail>>
      ELSE /\ Issue("create", Undefined, newTodo)
           /\ skipped' = "none"
           /\ prior' = NoStep
           /\ UNCHANGED <<todos, newTodo, editingId, editTitle, store, nextId,
                          logged, uncaught, tail>>

\* the Add calls other than m that are in flight
AddsInFlight(m) == {n.seq : n \in {x \in Others(m) : x.op = "create"}}

\* an Add that leaves the draft in the input
AddTodoKeepsDraft(m) ==
    /\ m \in Answered("create")
    /\ net' = Others(m)
    /\ IF Resolved(m)
         THEN /\ todos' = AddPatch(todos, m.body)
              /\ tail' = Append(tail, [seq |-> m.seq, id |-> IdOf(m.body), res |-> m.res,
                                      conc |-> AddsInFlight(m)])
              /\ uncaught' = uncaught
         ELSE /\ uncaught' = uncaught + 1
              /\ UNCHANGED <<todos, tail>>
    /\ skipped' = "none"
    /\ prior' = NoStep
    /\ UNCHANGED <<newTodo, editingId, editTitle, store, nextId, issued, logged>>

\* the part of addTodo after its awaits
AddTodoDone(m) ==
    /\ m \in Answered("create")
    /\ net' = Others(m)
    /\ IF Resolved(m)
         THEN /\ todos' = AddPatch(todos, m.body)
              /\ newTodo' = <<>>
              /\ tail' = Append(tail, [seq |-> m.seq, id |-> IdOf(m.body), res |-> m.res,
                                      conc |-> AddsInFlight(m)])
              /\ uncaught' = uncaught
         ELSE /\ uncaught' = uncaught + 1
              /\ UNCHANGED <<todos, newTodo, tail>>
    /\ skipped' = "none"
    /\ prior' = NoStep
    /\ UNCHANGED <<editingId, editTitle, store, nextId, issued, logged>>

-----------------------------------------------------------------------------
(* Toggle and Delete *)

\* toggleTodo(todo.id) up to its await: a click on the title of row i
ToggleTodo(i) ==
    /\ i \in ReadOnlyRows
    /\ Issue("toggle", IdOf(todos[i]), <<>>)
    /\ skipped' = "none"
    /\ prior' = NoStep
    /\ UNCHANGED <<todos, newTodo, editingId, editTitle, store, nextId,
                   logged, uncaught, tail>>

\* the part of toggleTodo after its awaits
ToggleTodoDone(m) ==
    /\ m \in Answered("toggle")
    /\ net' = Others(m)
    /\ IF Resolved(m)
         THEN /\ todos' = ReplacePatch(todos, m.body)
              /\ uncaught' = uncaught
         ELSE /\ uncaught' = uncaught + 1
              /\ todos' = todos
    /\ skipped' = "none"
    /\ prior' = NoStep
    /\ UNCHANGED <<newTodo, editingId, editTitle, store, nextId, issued, logged, tail>>

\* deleteTodo(todo.id) up to its await: a click on Delete in row i
DeleteTodo(i) ==
    /\ i \in ReadOnlyRows
    /\ Issue("delete", IdOf(todos[i]), <<>>)
    /\ skipped' = "none"
    /\ prior' = NoStep
    /\ UNCHANGED <<todos, newTodo, editingId, editTitle, store, nextId,
                   logged, uncaught, tail>>

\* the Add calls whose items stay in the list when the rows with id go
RECURSIVE KeepTail(_, _, _)
KeepTail(tl, rows, id) ==
    IF tl = <<>> THEN <<>>
    ELSE (IF KeepOnDelete(Head(rows), id) THEN <<Head(tl)>> ELSE <<>>)
         \o KeepTail(Tail(tl), Tail(rows), id)

\* the rows of the list that Add calls appended
TailRows == SubSeq(todos, Len(todos) - Len(tail) + 1, Len(todos))

\* the part of deleteTodo after its await
DeleteTodoDone(m) ==
    /\ m \in Answered("delete")
    /\ net' = Others(m)
    /\ IF Resolved(m)
         THEN /\ todos' = DeletePatch(todos, m.id)
              /\ tail' = KeepTail(tail, TailRows, m.id)
              /\ uncaught' = uncaught
         ELSE /\ uncaught' = uncaught + 1
              /\ UNCHANGED <<todos, tail>>
    /\ skipped' = "none"
    /\ prior' = NoStep
    /\ UNCHANGED <<newTodo, editingId, editTitle, store, nextId, issued, logged>>

-----------------------------------------------------------------------------
(* Edit mode *)

\* a startEdit that leaves the draft of the session before it
StartEditKeepsDraft(i) ==
    /\ i \in ReadOnlyRows
    /\ editingId' = IdOf(todos[i])
    /\ editTitle' = editTitle
    /\ skipped' = "none"
    /\ prior' = [ev |-> "startEdit", todos |-> todos, newTodo |-> newTodo,
                 net |-> net, issued |-> issued]
    /\ UNCHANGED <<todos, newTodo, net, store, nextId, issued, logged, uncaught, tail>>

\* startEdit(todo): a click on Edit in row i
StartEdit(i) ==
    /\ i \in ReadOnlyRows
    /\ editingId' = IdOf(todos[i])
    /\ editTitle' = TitleOf(todos[i])
    /\ skipped' = "none"
    /\ prior' = [ev |-> "startEdit", todos |-> todos, newTodo |-> newTodo,
                 net |-> net, issued |-> issued]
    /\ UNCHANGED <<todos, newTodo, net, store, nextId, issued, logged, uncaught, tail>>

\* onChange of the edit input
TypeEditTitle(s) ==
    /\ EditFormShown
    /\ editTitle' = s
    /\ skipped' = "none"
    /\ prior' = NoStep
    /\ UNCHANGED <<todos, newTodo, editingId, net, store, nextId,
                   issued, logged, uncaught, tail>>

\* a guard that does not trim the draft
SaveAcceptsUntrimmed(id, title) == TruthyId(id) /\ TruthyStr(title)

\* if (editingId && editTitle.trim())
SaveAccepts(id, title) == TruthyId(id) /\ TruthyStr(Trim(title))

\* saveEdit up to the await inside updateTodo: a click on Save
SaveEdit ==
    /\ EditFormShown
    /\ IF SaveAccepts(editingId, editTitle)
         THEN /\ Issue("update", editingId, Trim(editTitle))
              /\ skipped' = "none"
         ELSE /\ skipped' = "saveEdit"
              /\ UNCHANGED <<net, issued>>
    /\ prior' = NoStep
    /\ UNCHANGED <<todos, newTodo, editingId, editTitle, store, nextId,
                   logged, uncaught, tail>>

\* a clearing that forgets the draft
ClearEditIdOnly ==
    /\ editingId' = Null
    /\ editTitle' = editTitle

\* setEditingId(null); setEditTitle("")
ClearEdit ==
    /\ editingId' = Null
    /\ editTitle' = <<>>

\* an end of saveEdit that clears edit mode only if the renamed item is the
\* one being edited
UpdateTodoDoneOwnSession(m) ==
    /\ m \in Answered("update")
    /\ net' = Others(m)
    /\ IF Resolved(m)
         THEN /\ todos' = ReplacePatch(todos, m.body)
              /\ IF editingId = m.id
                   THEN ClearEdit
                   ELSE UNCHANGED <<editingId, editTitle>>
              /\ uncaught' = uncaught
         ELSE /\ uncaught' = uncaught + 1
              /\ UNCHANGED <<todos, editingId, editTitle>>
    /\ skipped' = "none"
    /\ prior' = [ev |-> "updateTodo", seq |-> m.seq, id |-> m.id, res |-> m.res,
                 editingId |-> editingId, editTitle |-> editTitle]
    /\ UNCHANGED <<newTodo, store, nextId, issued, logged, tail>>

\* the part of updateTodo after its awaits, then the rest of saveEdit
UpdateTodoDone(m) ==
    /\ m \in Answered("update")
    /\ net' = Others(m)
    /\ IF Resolved(m)
         THEN /\ todos' = ReplacePatch(todos, m.body)
              /\ ClearEdit
              /\ uncaught' = uncaught
         ELSE /\ uncaught' = uncaught + 1
              /\ UNCHANGED <<todos, editingId, editTitle>>
    /\ skipped' = "none"
    /\ prior' = [ev |-> "updateTodo", seq |-> m.seq, id |-> m.id, res |-> m.res,
                 editingId |-> editingId, editTitle |-> editTitle]
    /\ UNCHANGED <<newTodo, store, nextId, issued, logged, tail>>

\* a cancelEdit that empties the new-item input as well
CancelEditClearsInputs ==
    /\ EditFormShown
    /\ ClearEdit
    /\ newTodo' = <<>>
    /\ skipped' = "none"
    /\ prior' = IF prior.ev = "startEdit"
                  THEN [prior EXCEPT !.ev = "cancelEdit"]
                  ELSE NoStep
    /\ UNCHANGED <<todos, net, store, nextId, issued, logged, uncaught, tail>>

\* cancelEdit: a click on Cancel
CancelEdit ==
    /\ EditFormShown
    /\ ClearEdit
    /\ skipped' = "none"
    /\ prior' = IF prior.ev = "startEdit"
                  THEN [prior EXCEPT !.ev = "cancelEdit"]
                  ELSE NoStep
    /\ UNCHANGED <<todos, newTodo, net, store, nextId, issued, logged, uncaught, tail>>

-----------------------------------------------------------------------------
(* The view *)

RECURSIVE PreItems(_, _)
PreItems(first, n) ==
    IF n = 0 THEN <<>>
    ELSE Append(PreItems(first, n - 1), Item(first + n - 1, <<"a">>, FALSE))

\* the state when the mount effect has called fetchTodos
Init ==
    /\ todos = <<>>
    /\ newTodo = <<>>
    /\ editingId = Null
    /\ editTitle = <<>>
    /\ net = {Request(0, "list", Undefined, <<>>)}
    /\ \E first \in FirstIds, n \in 0..MaxPre :
          /\ store = PreItems(first, n)
          /\ nextId = first + n
    /\ issued = 0
    /\ logged = 0
    /\ uncaught = 0
    /\ tail = <<>>
    /\ skipped = "none"
    /\ prior = NoStep

Next ==
    \/ \E m \in net, o \in Answers : Serve(m, o)
    \/ \E m \in Answered("list") : FetchTodosDone(m)
    \/ \E s \in Typed : TypeNewTodo(s)
    \/ AddTodo
    \/ \E m \in Answered("create") : AddTodoDone(m)
    \/ \E i \in DOMAIN todos : ToggleTodo(i)
    \/ \E m \in Answered("toggle") : ToggleTodoDone(m)
    \/ \E i \in DOMAIN todos : DeleteTodo(i)
    \/ \E m \in Answered("delete") : DeleteTodoDone(m)
    \/ \E i \in DOMAIN todos : StartEdit(i)
    \/ \E s \in Typed : TypeEditTitle(s)
    \/ SaveEdit
    \/ \E m \in Answered("update") : UpdateTodoDone(m)
    \/ CancelEdit

Spec == Init /\ [][Next]_vars

\* the answers of the store to successful requests of kind op
Succeeded(op) == {m \in net : m.op = op /\ m.st = "replied" /\ m.res = "ok"}

\* the steps of the runs in which every request succeeds
NextOk ==
    \/ \E m \in net : Serve(m, "ok")
    \/ \E m \in Succeeded("list") : FetchTodosDone(m)
    \/ \E s \in Typed : TypeNewTodo(s)
    \/ AddTodo
    \/ \E m \in Succeeded("create") : AddTodoDone(m)
    \/ \E i \in DOMAIN todos : ToggleTodo(i)
    \/ \E m \in Succeeded("toggle") : ToggleTodoDone(m)
    \/ \E i \in DOMAIN todos : DeleteTodo(i)
    \/ \E m \in Succeeded("delete") : DeleteTodoDone(m)
    \/ \E i \in DOMAIN todos : StartEdit(i)
    \/ \E s \in Typed : TypeEditTitle(s)
    \/ SaveEdit
    \/ \E m \in Succeeded("update") : UpdateTodoDone(m)
    \/ CancelEdit

SpecOk == Init /\ [][NextOk]_vars

-----------------------------------------------------------------------------
(* Properties of Add *)

\* the positions of tail, in pairs (earlier, later)
TailPairs == {p \in (DOMAIN tail) \X (DOMAIN tail) : p[1] < p[2]}

\* the rows that Add calls appended are the last rows of the list, in the
\* order of tail
TailIsListTail ==
    /\ Len(tail) <= Len(todos)
    /\ \A k \in DOMAIN tail : IdOf(TailRows[k]) = tail[k].id

\* C1 as claimed: the items that successful Add calls appended are the tail
\* of the local list in the order in which the calls were issued, also when
\* the requests were in flight together.
AddedInCallOrder ==
    /\ TailIsListTail
    /\ \A p \in TailPairs :
          tail[p[1]].res = "ok" /\ tail[p[2]].res = "ok"
             => tail[p[1]].seq < tail[p[2]].seq

\* C1 amended: the items that Add calls appended are the tail of the local
\* list in the order in which their responses were applied; two of them are
\* out of call order only if the later call was in flight when the response
\* of the earlier one was applied.
AddedInResponseOrder ==
    /\ TailIsListTail
    /\ \A p \in TailPairs :
          tail[p[1]].seq > tail[p[2]].seq => tail[p[2]].seq \in tail[p[1]].conc

\* two successful Add calls were in flight together and the response of the
\* second call was applied first
AddsAnsweredOutOfOrder ==
    /\ Len(tail) = 2
    /\ tail[1].res = "ok" /\ tail[2].res = "ok"
    /\ tail[1].seq = 2 /\ tail[2].seq = 1
    /\ Len(todos) = 3

\* C2 as claimed: Add with an empty or whitespace-only draft issues no
\* request and leaves the local list and the draft unchanged.
AddBlankIsNoop ==
    [][AddTodo /\ Trim(newTodo) = <<>> => UNCHANGED <<net, todos, newTodo>>]_vars

\* C2 amended: Add with an empty draft issues no request and leaves the local
\* list and the draft unchanged.
AddEmptyIsNoop ==
    [][AddTodo /\ newTodo = <<>> => UNCHANGED <<net, issued, todos, newTodo>>]_vars

\* Add was invoked on an empty draft, next to a list that holds an item
AddSkippedOnEmptyDraft ==
    /\ skipped = "addTodo"
    /\ newTodo = <<>>
    /\ todos # <<>>

\* C3: when a successful Add response is applied, the local list becomes the
\* list as it was with the returned Item appended, and the draft is empty.
AddAppendsReturnedItem ==
    [][\A m \in Answered("create") :
          AddTodoDone(m) /\ m.res = "ok"
             => /\ todos' = todos \o <<m.body>>
                /\ newTodo' = <<>>]_vars

\* a successful Add appended its item to a list that held an item and
\* cleared the draft
AddAppendedToList ==
    /\ Len(todos) = 2
    /\ Len(tail) = 1
    /\ tail[1].res = "ok"
    /\ todos[2].title = <<"b", Space>>
    /\ newTodo = <<>>
    /\ net = {}

-----------------------------------------------------------------------------
(* Properties of Toggle, Rename and Delete *)

\* the list prev with the rows of id replaced by data
Replaced(prev, id, data) ==
    /\ Len(todos') = Len(prev)
    /\ \A i \in DOMAIN prev :
          todos'[i] = IF IdOf(prev[i]) = id THEN data ELSE prev[i]

\* C4: when a successful Toggle or Rename response is applied, the rows whose
\* id is the requested id become the returned Item and every other row, the
\* length and the order of the list stay as they were.
ReplaceTouchesOnlyId ==
    [][/\ \A m \in Answered("toggle") :
             ToggleTodoDone(m) /\ m.res = "ok" => Replaced(todos, m.id, m.body)
       /\ \A m \in Answered("update") :
             UpdateTodoDone(m) /\ m.res = "ok" => Replaced(todos, m.id, m.body)]_vars

\* a successful Toggle replaced the first of two rows and left the second
ToggledOneOfTwo ==
    /\ Len(todos) = 2
    /\ Len(tail) = 1
    /\ "completed" \in DOMAIN todos[1] /\ todos[1].completed
    /\ "completed" \in DOMAIN todos[2] /\ ~todos[2].completed
    /\ net = {}

RECURSIVE Without(_, _)
\* the list rows without the rows of id, in the same order
Without(rows, id) ==
    IF rows = <<>> THEN <<>>
    ELSE IF IdOf(Head(rows)) = id THEN Without(Tail(rows), id)
         ELSE <<Head(rows)>> \o Without(Tail(rows), id)

\* C5: when a successful Delete response is applied, the local list loses
\* exactly the rows whose id is the deleted id and keeps the others in their
\* order; if no row has that id the list stays as it was.
DeleteRemovesOnlyId ==
    [][\A m \in Answered("delete") :
          DeleteTodoDone(m) /\ m.res = "ok"
             => /\ todos' = Without(todos, m.id)
                /\ (\A i \in DOMAIN todos : IdOf(todos[i]) # m.id) => todos' = todos]_vars

\* a successful Delete removed the first of two rows: the item the store
\* held at the mount is gone from the list and the added item is left
DeletedOneOfTwo ==
    /\ Len(todos) = 1
    /\ Len(tail) = 1
    /\ tail[1].res = "ok"
    /\ store = todos
    /\ store[1].id = 2
    /\ issued = 2
    /\ net = {}
    /\ uncaught = 0

-----------------------------------------------------------------------------
(* Properties of failures *)

\* the local list and the new-item draft stay as they are
KeepsListAndDraft == todos' = todos /\ newTodo' = newTodo

\* C6 as claimed: the response of a failed Add, Rename, Delete or Toggle,
\* failed in transport or by a failure status, leaves the local list and the
\* new-item draft as they were.
FailureLeavesListAndDraft ==
    [][/\ \A m \in Answered("create") :
             AddTodoDone(m) /\ m.res # "ok" => KeepsListAndDraft
       /\ \A m \in Answered("update") :
             UpdateTodoDone(m) /\ m.res # "ok" => KeepsListAndDraft
       /\ \A m \in Answered("delete") :
             DeleteTodoDone(m) /\ m.res # "ok" => KeepsListAndDraft
       /\ \A m \in Answered("toggle") :
             ToggleTodoDone(m) /\ m.res # "ok" => KeepsListAndDraft]_vars

SaveBlankLeavesEditMode ==
    [][SaveEdit /\ TruthyId(editingId) /\ Blank(editTitle)
          => net' = net /\ todos' = todos /\ editingId' = Null]_vars

\* C8 amended: SaveEdit with a whitespace-only edit draft issues no request
\* and changes nothing: the local list, editingId and the edit draft stay as
\* they were, so the view is still editing the item.
SaveBlankIsNoop ==
    [][SaveEdit /\ Trim(editTitle) = <<>>
          => UNCHANGED <<net, issued, todos, editingId, editTitle>>]_vars

\* SaveEdit was invoked on a whitespace-only draft while an item that SaveEdit
\* can rename was being edited
SaveSkippedOnBlankDraft ==
    /\ skipped = "saveEdit"
    /\ editTitle = <<Space>>
    /\ TruthyId(editingId)
    /\ EditFormShown

-----------------------------------------------------------------------------
(* Properties of Load *)

\* C9: a Load whose request fails in transport, or whose body is not JSON,
\* ends with the local list empty and the failure logged, and not as a
\* rejected promise.
LoadFailureIsCaught ==
    [][\A m \in Answered("list") :
          FetchTodosDone(m) /\ m.res \in Failures
             => /\ todos' = <<>>
                /\ logged' = logged + 1
                /\ uncaught' = uncaught]_vars

\* the Load failed after an Add had put an item into the list: the list is
\* empty, the failure is logged and no promise ended rejected
LoadFailedAfterAdd ==
    /\ todos = <<>>
    /\ logged = 1
    /\ uncaught = 0
    /\ issued = 1
    /\ net = {}
    /\ Len(store) = 2

\* C10: when a Load response is applied, the local list becomes exactly the
\* response if the response is a sequence, and becomes empty if it is not.
LoadReplacesOrEmpties ==
    [][\A m \in Answered("list") :
          FetchTodosDone(m) /\ m.res \in Answers
             => todos' = IF "items" \in DOMAIN m.body THEN m.body.items ELSE <<>>]_vars

\* a Load response replaced the one-item list that an Add had built by the
\* two items of the store
LoadReplacedList ==
    /\ Len(todos) = 2
    /\ todos = store
    /\ tail = <<>>
    /\ issued = 1
    /\ net = {}
    /\ logged = 0

-----------------------------------------------------------------------------
(* Properties of edit mode *)

\* C11: edit mode is Idle (editingId null and the edit draft empty) or
\* Editing(id), and editingId changes only in these steps: startEdit of a row,
\* from Idle or from another session, to that row's id with the draft set to
\* the row's title and no request issued for the session it replaces; and
\* from Editing to Idle by cancelEdit or by the end of the Rename that
\* saveEdit issued.
EditModeChangesByEditSteps ==
    [][/\ editingId' = Null => editTitle' = <<>>
       /\ editingId' # editingId =>
             \/ \E i \in DOMAIN todos :
                   /\ StartEdit(i)
                   /\ editingId' = IdOf(todos[i])
                   /\ editTitle' = TitleOf(todos[i])
                   /\ UNCHANGED <<todos, net, issued>>
             \/ /\ \/ CancelEdit
                   \/ \E m \in Answered("update") : UpdateTodoDone(m)
                /\ editingId # Null
                /\ editingId' = Null]_vars

\* the Rename of the session being edited ended and left edit mode Idle
RenameEndedTheSession ==
    /\ prior.ev = "updateTodo"
    /\ prior.editingId = prior.id
    /\ editingId = Null
    /\ editTitle = <<>>

\* C12: startEdit of a row followed immediately by cancelEdit issues no
\* request, leaves the list and the new-item draft as they were before
\* startEdit, and ends with edit mode Idle (editingId null, edit draft empty).
StartThenCancelChangesNothing ==
    prior.ev = "cancelEdit" =>
        /\ net = prior.net
        /\ issued = prior.issued
        /\ todos = prior.todos
        /\ newTodo = prior.newTodo
        /\ editingId = Null
        /\ editTitle = <<>>

\* startEdit then cancelEdit ran on a list with a row, a typed new-item draft
\* and a request in flight
StartedThenCancelled ==
    /\ prior.ev = "cancelEdit"
    /\ todos # <<>>
    /\ newTodo # <<>>
    /\ net # {}

-----------------------------------------------------------------------------
(* Properties of responses in flight together *)

\* the list after the handler that awaits response m has applied it to rows:
\* setTodos of deleteTodo, or of updateTodo and toggleTodo
Patched(rows, m) ==
    IF m.op = "delete" THEN DeletePatch(rows, m.id) ELSE ReplacePatch(rows, m.body)

\* the responses of successful Rename, Toggle and Delete requests that their
\* handlers have yet to apply
Mutations == Succeeded("update") \cup Succeeded("toggle") \cup Succeeded("delete")

\* C13: when the responses of two successful mutations (Rename, Toggle,
\* Delete) on different ids await their handlers together, the list after
\* both are applied is the same whichever is applied first.
MutationsOfDifferentIdsCommute ==
    \A m1, m2 \in Mutations :
        m1.id # m2.id =>
            Patched(Patched(todos, m1), m2) = Patched(Patched(todos, m2), m1)

\* a successful Delete and a successful Rename or Toggle on two rows of the
\* list await their handlers together
TwoMutationsOfTwoRows ==
    \E m1 \in Succeeded("delete"), m2 \in Succeeded("update") \cup Succeeded("toggle") :
        /\ m1.id # m2.id
        /\ Patched(todos, m1) # todos
        /\ Patched(todos, m2) # todos

\* the responses of successful Rename and Toggle requests that their handlers
\* have yet to apply
RowEdits == Succeeded("update") \cup Succeeded("toggle")

\* C14: when the responses of two successful Rename or Toggle requests on the
\* same id await their handlers together and the list holds the item, the
\* item after both are applied is the Item of the response applied last, in
\* either order of issue.
LastAppliedResponseWins ==
    \A m1, m2 \in RowEdits :
        m1.seq # m2.seq /\ m1.id = m2.id =>
            \A i \in DOMAIN todos :
                IdOf(todos[i]) = m1.id =>
                    Patched(Patched(todos, m1), m2)[i] = m2.body

\* a successful Rename and a successful Toggle of one row await their
\* handlers together, the Toggle issued first
RenameAndToggleOfOneRow ==
    \E m1 \in Succeeded("toggle"), m2 \in Succeeded("update") :
        /\ m1.id = m2.id
        /\ m1.seq < m2.seq
        /\ m1.body # m2.body
        /\ \E i \in DOMAIN todos : IdOf(todos[i]) = m1.id

-----------------------------------------------------------------------------
(* Properties of the list against the Item Store *)

\* the rows of a list, as a set
RowsOf(rows) == {rows[i] : i \in DOMAIN rows}

\* C15 as claimed: whenever no request is in flight and every request issued
\* has succeeded, the list holds exactly the collection of the Item Store:
\* the same ids, each with the store's title and completed.
QuiescentListIsTheStore ==
    net = {} => /\ Len(todos) = Len(store)
                /\ RowsOf(todos) = RowsOf(store)

\* C16 as claimed: the list never holds two rows with the same id, also when
\* an Add is issued while the Load of the mount is in flight.
NoTwoRowsWithOneId ==
    \A i, j \in DOMAIN todos : IdOf(todos[i]) = IdOf(todos[j]) => i = j

\* the values that the handler awaiting response m received from the store
Received(m) == IF IsArray(m.body) THEN RowsOf(m.body.items) ELSE {m.body}

\* C19 as claimed: every row of the list is, by value (id, title,
\* completed), an Item received from the Item Store: every row that a step
\* puts in the list is an Item and comes from the success response that the
\* step applies.
RowsAreItemsOfTheStore ==
    [][\A t \in RowsOf(todos') \ RowsOf(todos) :
          /\ DOMAIN t = {"id", "title", "completed"}
          /\ \E m \in net \ net' :
                m.st = "replied" /\ m.res = "ok" /\ t \in Received(m)]_vars

-----------------------------------------------------------------------------
(* Properties of edit mode against the list and the requests *)

\* C17 as claimed: saveEdit issues exactly one Rename, for editingId and the
\* trimmed draft, whenever editingId is an integer id (0 included) and the
\* trimmed draft is not empty, and issues nothing otherwise.
SaveEditIssuesRenameForAnyId ==
    [][SaveEdit =>
          IF editingId \in Nat /\ Trim(editTitle) # <<>>
            THEN net' = net \cup {Request(issued + 1, "update", editingId,
                                           Trim(editTitle))}
            ELSE net' = net]_vars

\* C18 as claimed: whenever edit mode is Editing(id), exactly one row of the
\* list has that id.
EditedRowIsInList ==
    editingId # Null =>
        Cardinality({i \in DOMAIN todos : IdOf(todos[i]) = editingId}) = 1

\* C20: when the Rename that saveEdit issued succeeds, editingId is set to
\* null and the edit draft to the empty string whatever they hold then: if
\* startEdit of another row ran while the Rename was in flight, that row's
\* session ends, its draft is dropped without a request, and its row stays
\* as it was.
RenameSuccessEndsAnySession ==
    [][\A m \in Succeeded("update") :
          UpdateTodoDone(m) =>
              /\ editingId' = Null
              /\ editTitle' = <<>>
              /\ net' = Others(m)
              /\ issued' = issued
              /\ \A i \in DOMAIN todos :
                    IdOf(todos[i]) # m.id => todos'[i] = todos[i]]_vars

\* a successful Rename ended while another row was being edited with a typed
\* draft, and edit mode is Idle
RenameEndedAnotherSession ==
    /\ prior.ev = "updateTodo"
    /\ prior.res = "ok"
    /\ prior.editingId \notin {Null, prior.id}
    /\ prior.editTitle = <<"b", Space>>
    /\ editingId = Null
    /\ editTitle = <<>>
====
